---- MODULE Spec2Model ----
(***************************************************************************)
(* Variable-flow analysis of bingoggles/vfa.py: the interprocedural slice  *)
(* driver (Analysis.complete_slice), the memoised slicing entry points     *)
(* (Analysis.tainted_slice, Analysis.complete_slice) and the call-site     *)
(* extractor (Analysis.get_sliced_calls), run over small programs in an    *)
(* MLIL-like intermediate representation.                                  *)
(***************************************************************************)
EXTENDS Integers, Sequences, FiniteSets, TLC

\* ------------------------------------------------------------------ bounds
\* Number of functions of the analysed binary.
NumFuncs == 2
\* Number of top-level calls made on one Analysis instance in SpecMemo.
MaxInvocations == 2
\* The depth of the interpreter's stack at which a further nested call ends
\* with RecursionError, counted in resolver invocations and in nested calls of
\* walk_variable.
RecursionDepth == 4
WalkDepth == 6

\* ------------------------------------------------------- the analysed binary
Funcs == 1..NumFuncs

\* Call targets of the program templates are relative, so that every
\* assignment of templates to functions is a closed program.
NextFunc(f) == (f % NumFuncs) + 1

Range(s) == { s[i] : i \in 1..Len(s) }

\* The element of a one-element set: Only({ e : x \in {v} }) is e with x
\* standing for the value of v.
Only(S) == CHOOSE x \in S : TRUE

\* Python's None where a Variable is expected, and an address that lies in
\* no function of the binary.
NoneVar == <<0, "None">>
BadAddr == <<0, 0>>

\* MLIL instructions: operation, variables written, variables read, and for
\* a call the destination (dk = "const": a constant pointer to function df,
\* df = 0 when no function starts there; dk = "indirect": a call through a
\* variable) and the argument variables in order.
SetVar(w, r) == [op |-> "MLIL_SET_VAR", w |-> <<w>>, r |-> <<r>>, dk |-> "none", df |-> 0, args |-> <<>>]
Call(dk, df, args, w) == [op |-> "MLIL_CALL", w |-> w, r |-> args, dk |-> dk, df |-> df, args |-> args]
Ret(r) == [op |-> "MLIL_RET", w |-> <<>>, r |-> r, dk |-> "none", df |-> 0, args |-> <<>>]
\* A definition of a field of w, an operation the resolver has no case for,
\* and a store of src: dest = "var" stores to [base], "sum" to [base + off]
\* and "indexed" to [(base + constant) + off].
SetField(w, prev, r) ==
  [op |-> "MLIL_SET_VAR_FIELD", w |-> <<w>>, r |-> <<prev, r>>, dk |-> "none", df |-> 0, args |-> <<>>]
Intrinsic(w, r) ==
  [op |-> "MLIL_INTRINSIC", w |-> <<w>>, r |-> <<r>>, dk |-> "none", df |-> 0, args |-> <<>>]
StoreSsa(dest, base, off, src) ==
  [op |-> "MLIL_STORE", w |-> <<>>, r |-> IF dest = "var" THEN <<base, src>> ELSE <<base, off, src>>,
   dk |-> "none", df |-> 0, args |-> <<>>, dest |-> dest, base |-> base, off |-> off]

\* What the StructMember case reads of the instruction at the seed: whether
\* the attributes read first exist (ssa_form.src.offset, src, hlil.src.var),
\* the HLIL operation, the operation of its destination and of the
\* destination's base, the MLIL operation and the operation of its source.
Shape(attrs, hlil, dest, base, mlil, source) ==
  [attrs |-> attrs, hlil |-> hlil, dest |-> dest, base |-> base, mlil |-> mlil, source |-> source]

NoShape == Shape(FALSE, "other", "other", "other", "other", "other")

StructShapes ==
  << Shape(TRUE, "HLIL_ASSIGN", "HLIL_DEREF_FIELD", "HLIL_VAR", "MLIL_STORE_STRUCT", "other"),
     Shape(TRUE, "HLIL_ASSIGN", "HLIL_DEREF_FIELD", "other", "MLIL_STORE_STRUCT", "other"),
     Shape(TRUE, "HLIL_ASSIGN", "HLIL_VAR", "other", "MLIL_SET_VAR", "MLIL_LOAD_STRUCT"),
     Shape(TRUE, "HLIL_VAR_INIT", "HLIL_VAR", "other", "MLIL_SET_VAR", "MLIL_LOAD_STRUCT"),
     Shape(TRUE, "HLIL_VAR_INIT", "HLIL_VAR", "other", "MLIL_SET_VAR", "MLIL_VAR_FIELD"),
     Shape(TRUE, "HLIL_VAR_INIT", "HLIL_VAR", "other", "MLIL_SET_VAR", "other"),
     Shape(TRUE, "HLIL_ASSIGN", "HLIL_VAR", "other", "MLIL_SET_VAR", "other"),
     Shape(TRUE, "other", "other", "other", "other", "other"),
     NoShape >>

\* The instruction ins with the shape s at its address.
Shaped(ins, s) == [shape |-> s] @@ ins
ShapeOf(ins) == IF "shape" \in DOMAIN ins THEN ins.shape ELSE NoShape

\* The function bodies the programs are built from; f is the function the
\* template is instantiated for.
TemplateIds == 1..8
StructTemplateIds == { 8 + k : k \in 1..Len(StructShapes) }
Template(t, f) ==
  CASE t = 1 -> \* leaf: one parameter, a call to an address that is no function
         [params |-> <<"p1">>, imported |-> FALSE,
          body |-> << SetVar("x", "p1"), Call("const", 0, <<"x">>, <<>>), Ret(<<"x">>) >>]
    [] t = 2 -> \* leaf whose first parameter is never referenced
         [params |-> <<"p1", "p2">>, imported |-> FALSE,
          body |-> << SetVar("x", "p2"), Ret(<<"x">>) >>]
    [] t = 3 -> \* self-recursive
         [params |-> <<"p1">>, imported |-> FALSE,
          body |-> << SetVar("x", "p1"), Call("const", f, <<"p1">>, <<"y">>), Ret(<<"y">>) >>]
    [] t = 4 -> \* two call sites of the next function, tainted at position 1 and at 2
         [params |-> <<"p1">>, imported |-> FALSE,
          body |-> << SetVar("x", "p1"), Call("const", NextFunc(f), <<"x", "c">>, <<>>),
                      Call("const", NextFunc(f), <<"c", "x">>, <<>>), Ret(<<"x">>) >>]
    [] t = 5 -> \* two parameters, a recursive call and a call of the next function
         [params |-> <<"p1", "p2">>, imported |-> FALSE,
          body |-> << SetVar("x", "p1"), Call("const", f, <<"c", "x">>, <<>>),
                      Call("const", NextFunc(f), <<"x", "y">>, <<>>),
                      SetVar("y", "p2"), Ret(<<"y">>) >>]
    [] t = 6 -> \* one call site passing the tainted variable twice
         [params |-> <<"p1">>, imported |-> FALSE,
          body |-> << SetVar("x", "p1"), Call("const", NextFunc(f), <<"x", "x">>, <<"y">>),
                      Ret(<<"y">>) >>]
    [] t = 7 -> \* stub of an imported function (ImportedFunctionSymbol)
         [params |-> <<"p1">>, imported |-> TRUE,
          body |-> << SetVar("x", "p1"), Ret(<<"x">>) >>]
    [] t = 8 -> \* a call through a variable, then a call of the next function
         [params |-> <<"p1">>, imported |-> FALSE,
          body |-> << SetVar("x", "p1"), Call("indirect", 0, <<"x">>, <<>>),
                      Call("const", NextFunc(f), <<"x">>, <<>>), Ret(<<"x">>) >>]
    [] t = 18 -> \* a call of an address that is no function, with a result
         [params |-> <<"p1">>, imported |-> FALSE,
          body |-> << SetVar("x", "p1"), Call("const", 0, <<"x">>, <<"y">>), Ret(<<"y">>) >>]
    [] t = 19 -> \* a store, an operation with no case, and a field definition
         [params |-> <<"p1">>, imported |-> FALSE,
          body |-> << SetVar("x", "p1"), StoreSsa("var", "x", "", "p1"), Intrinsic("z", "x"),
                      SetField("v", "c", "z"), Ret(<<"v">>) >>]
    [] t = 21 -> \* a store to [(p1 + constant) + z] after z was defined
         [params |-> <<"p1">>, imported |-> FALSE,
          body |-> << Intrinsic("z", "c"), StoreSsa("indexed", "p1", "z", "p1"), Ret(<<"z">>) >>]
    [] t = 22 -> \* the same store before any definition, then a store to [p1 + z]
         [params |-> <<"p1">>, imported |-> FALSE,
          body |-> << StoreSsa("indexed", "p1", "z", "p1"), StoreSsa("sum", "p1", "z", "p1"),
                      Ret(<<"p1">>) >>]
    [] t = 23 -> \* a recursive call passing one argument more than it declares
         [params |-> <<"p1">>, imported |-> FALSE,
          body |-> << SetVar("x", "p1"), SetVar("y", "x"), Call("const", f, <<"x", "y">>, <<>>),
                      Ret(<<"y">>) >>]
    [] t = 20 -> \* five parameters
         [params |-> <<"p1", "p2", "p3", "p4", "p5">>, imported |-> FALSE,
          body |-> << SetVar("x", "p1"), Ret(<<"x">>) >>]
    [] OTHER -> \* a struct access of shape StructShapes[t - 8], then its use
         [params |-> <<"p1">>, imported |-> FALSE,
          body |-> << Shaped(SetVar("x", "p1"), StructShapes[t - 8]), SetVar("y", "x"),
                      Ret(<<"y">>) >>]

Programs == [Funcs -> TemplateIds]

VARIABLES
  prog,                    \* the binary: function -> template
  api,                     \* the entry point running or last run
  args,                    \* its arguments, as passed by the caller
  pc,                      \* position in the running entry point
  exc,                     \* the exception that ended it, "" when none
  result,                  \* the value it returned
  propagation_cache,       \* complete_slice: key -> (slice, propagated values)
  call_flow,               \* complete_slice: keys in discovery order
  calls_analyzed,          \* complete_slice: tuples already expanded
  propagated_vars,         \* complete_slice: the local of that name
  sliced_calls_to_analyze, \* complete_slice: the work queue (an ordered dict)
  new_calls,               \* complete_slice: the next round's queue
  qi,                      \* index of the queue entry the for loop is at
  pi,                      \* index of the param_map item the inner loop is at
  func_param_to_analyze,   \* complete_slice: the local of that name
  ts_cache,                \* functools.cache of tainted_slice
  cs_cache,                \* functools.cache of complete_slice
  next_id,                 \* identity of the next result object created
  slicer_runs,             \* number of runs of trace_tainted_variable so far
  ninv,                    \* number of top-level calls made so far
  started,                 \* history: the callee slices started, in order
  computed,                \* history: the first slice computed for each key
  log,                     \* history: the top-level calls that returned
  entry_runs,              \* history: slicer_runs when the running call began
  frames,                  \* is_function_param_tainted: the invocations on the stack
  tainted_param_map,       \* is_function_param_tainted: the shared aliasing map
  descents                 \* history: the resolved call sites the resolver met

vars == << prog, api, args, pc, exc, result, propagation_cache, call_flow,
           calls_analyzed, propagated_vars, sliced_calls_to_analyze, new_calls,
           qi, pi, func_param_to_analyze, ts_cache, cs_cache, next_id,
           slicer_runs, ninv, started, computed, log, entry_runs,
           frames, tainted_param_map, descents >>

\* ------------------------------------------------------ IR access layer
Params(f) == Template(prog[f], f).params
Body(f) == Template(prog[f], f).body
IsImported(f) == Template(prog[f], f).imported

\* The address of instruction i of function f; a function starts at its
\* first instruction, and the address after its last instruction belongs to
\* the function but has no MLIL instruction.
Addr(f, i) == <<f, i>>
Start(f) == Addr(f, 1)

addr_to_func(a) ==
  IF a[1] \in Funcs /\ a[2] \in 1..(Len(Body(a[1])) + 1) THEN a[1] ELSE 0

\* func_obj.get_llil_at(address).mlil: the index of the instruction, 0 for None.
mlil_at(f, a) == IF a[1] = f /\ a[2] \in 1..Len(Body(f)) THEN a[2] ELSE 0

VarNames(f) ==
  Range(Params(f)) \cup UNION { Range(Body(f)[i].w) \cup Range(Body(f)[i].r) : i \in 1..Len(Body(f)) }

str_to_var_object(name, f) == IF name \in VarNames(f) THEN <<f, name>> ELSE NoneVar

find_param_by_name(f, name) == IF name \in Range(Params(f)) THEN <<f, name>> ELSE NoneVar

\* func_obj.get_mlil_var_refs(var): the instructions that reference var, in
\* address order.
RECURSIVE RefsFrom(_, _, _)
RefsFrom(f, name, i) ==
  IF i > Len(Body(f)) THEN << >>
  ELSE LET ins == Body(f)[i]
           rest == RefsFrom(f, name, i + 1)
       IN IF name \in Range(ins.w) \cup Range(ins.r) THEN <<i>> \o rest ELSE rest

get_mlil_var_refs(f, v) == RefsFrom(f, v[2], 1)

\* ------------------------------------------------ intraprocedural slicer
\* s followed by the elements of t that are not yet in it.
RECURSIVE AppendNew(_, _)
AppendNew(s, t) ==
  IF t = << >> THEN s
  ELSE Only({ AppendNew(s1, Tail(t)) :
              s1 \in {IF t[1] \in Range(s) THEN s ELSE Append(s, t[1])} })

\* Forward: from the seed instruction in increasing program order, an
\* instruction that reads a tainted value is recorded and what it writes
\* becomes tainted.
RECURSIVE TraceForward(_, _, _, _, _)
TraceForward(f, i, start, tainted, slice) ==
  IF i > Len(Body(f)) THEN [slice |-> slice, names |-> tainted]
  ELSE LET ins == Body(f)[i]
           hit == \/ Range(ins.r) \cap Range(tainted) # {}
                  \/ i = start /\ Range(ins.w) \cap Range(tainted) # {}
       IN Only({ TraceForward(f, i + 1, start, t, s) :
                 t \in {IF hit THEN AppendNew(tainted, ins.w) ELSE tainted},
                 s \in {IF hit THEN Append(slice, Addr(f, i)) ELSE slice} })

\* Backward: from the seed instruction in decreasing program order, an
\* instruction that writes a tainted value is recorded and what it reads
\* becomes tainted.
RECURSIVE TraceBackward(_, _, _, _, _)
TraceBackward(f, i, start, tainted, slice) ==
  IF i < 1 THEN [slice |-> slice, names |-> tainted]
  ELSE LET ins == Body(f)[i]
           hit == \/ Range(ins.w) \cap Range(tainted) # {}
                  \/ i = start /\ Range(ins.r) \cap Range(tainted) # {}
       IN Only({ TraceBackward(f, i - 1, start, t, s) :
                 t \in {IF hit THEN AppendNew(tainted, ins.r) ELSE tainted},
                 s \in {IF hit THEN Append(slice, Addr(f, i)) ELSE slice} })

\* (ordered list of TaintedLOC, list of propagated values); a propagated
\* value is given by its .variable.
trace_tainted_variable(f, mlil_loc, variable, trace_type) ==
  Only({ [slice |-> t.slice, pvars |-> [k \in 1..Len(t.names) |-> <<f, t.names[k]>>]] :
         t \in {IF trace_type = "Forward"
                THEN TraceForward(f, mlil_loc, mlil_loc, <<variable[2]>>, << >>)
                ELSE TraceBackward(f, mlil_loc, mlil_loc, <<variable[2]>>, << >>)} })

\* ---------------------------------------------------------- tainted_slice
\* What a call ends with: st = "ok" (a tuple was returned), "none" (None was
\* returned) or "raise" (exception exc); ran counts the runs of the slicer;
\* id is the identity of the returned object (0 for None).
NoResult == [st |-> "none", exc |-> "", slice |-> << >>, fname |-> 0, pvars |-> << >>, ran |-> 0, id |-> 0]
Raise(e, ran) == [NoResult EXCEPT !.st = "raise", !.exc = e, !.ran = ran]

\* The match on output that ends tainted_slice: Printed sorts
\* sliced_func.items(), which the list returned by the slicer does not have,
\* and returns nothing when no slicer ran (sliced_func is still the dict).
OutputOf(f, t, traced, output) ==
  CASE output = "Printed" ->
         IF traced THEN Raise("AttributeError", 1) ELSE NoResult
    [] output = "Returned" ->
         [NoResult EXCEPT !.st = "ok", !.slice = t.slice, !.fname = f, !.pvars = t.pvars,
                          !.ran = IF traced THEN 1 ELSE 0]
    [] OTHER -> Raise("TypeError", IF traced THEN 1 ELSE 0)

EmptyTrace == [slice |-> << >>, pvars |-> << >>]

FunctionVarSlice(f, target, output, slice_type) ==
  Only({ IF mlil_loc = 0 THEN NoResult
         ELSE IF var_object = NoneVar THEN OutputOf(f, EmptyTrace, FALSE, output)
         ELSE IF slice_type \in {"Forward", "Backward"}
              THEN OutputOf(f, trace_tainted_variable(f, mlil_loc, var_object, slice_type), TRUE, output)
              ELSE Raise("TypeError", 0) :
         mlil_loc \in {mlil_at(f, target.loc)},
         var_object \in {str_to_var_object(target.variable.name, f)} })

FunctionParamSlice(f, target, output) ==
  Only({ IF target_param = NoneVar THEN Raise("AttributeError", 0)
         ELSE Only({ IF param_refs = << >> THEN Raise("IndexError", 0)
                     ELSE OutputOf(f, trace_tainted_variable(f, param_refs[1], target_param, "Forward"),
                                   TRUE, output) :
                     param_refs \in {get_mlil_var_refs(f, target_param)} }) :
         target_param \in {IF target.variable.kind = "MediumLevelILVar"
                           THEN <<target.variable.f, target.variable.name>>
                           ELSE find_param_by_name(f, target.variable.name)} })

\* The data symbols of the binary, by name: one g, two d.
DataSymbols == <<"g", "d", "d">>

\* case SlicingID.GlobalVar: the symbols of the name, and a trace of the
\* global when there is any.
GlobalVarSlice(f, target, output, slice_type) ==
  Only({ IF mlil_loc = 0 THEN NoResult
         ELSE IF symbol = << >> THEN OutputOf(f, EmptyTrace, FALSE, output)
         ELSE IF slice_type \in {"Forward", "Backward"}
              THEN OutputOf(f, trace_tainted_variable(f, mlil_loc, <<f, target.variable.name>>, slice_type),
                            TRUE, output)
              ELSE Raise("TypeError", 0) :
         mlil_loc \in {mlil_at(f, target.loc)},
         symbol \in {SelectSeq(DataSymbols, LAMBDA n : n = target.variable.name)} })

\* The trace of a struct member from the instruction at mlil_loc; a direction
\* that is neither Forward nor Backward raises where the branch has an else,
\* and leaves the empty slice where it has none.
StructTrace(f, mlil_loc, name, output, slice_type, has_else) ==
  IF slice_type \in {"Forward", "Backward"}
  THEN OutputOf(f, trace_tainted_variable(f, mlil_loc, <<f, name>>, slice_type), TRUE, output)
  ELSE IF has_else THEN Raise("TypeError", 0)
  ELSE OutputOf(f, EmptyTrace, FALSE, output)

\* case SlicingID.StructMember.
StructMemberSlice(f, target, output, slice_type) ==
  Only({ IF mlil_loc = 0 THEN NoResult
         ELSE Only({ IF ~sh.attrs THEN Raise("AttributeError", 0)
                     ELSE IF sh.hlil = "HLIL_ASSIGN"
                     THEN IF sh.dest = "HLIL_DEREF_FIELD" /\ sh.base = "HLIL_VAR"
                          THEN StructTrace(f, mlil_loc, ins.w[1], output, slice_type, TRUE)
                          ELSE OutputOf(f, EmptyTrace, FALSE, output)
                     ELSE IF sh.mlil = "MLIL_SET_VAR"
                     THEN IF sh.source = "MLIL_LOAD_STRUCT"
                          THEN StructTrace(f, mlil_loc, ins.r[1], output, slice_type, TRUE)
                          ELSE IF sh.source = "MLIL_VAR_FIELD"
                          THEN StructTrace(f, mlil_loc, ins.r[1], output, slice_type, FALSE)
                          ELSE OutputOf(f, EmptyTrace, FALSE, output)
                     ELSE Raise("ValueError", 0) :
                     ins \in {Body(f)[mlil_loc]}, sh \in {ShapeOf(Body(f)[mlil_loc])} }) :
         mlil_loc \in {mlil_at(f, target.loc)} })

\* Mutant: a FunctionParam seed is sliced in the direction asked for.
SliceInDirected(func_obj, target, var_type, output, slice_type) ==
  CASE var_type = "FunctionVar" -> FunctionVarSlice(func_obj, target, output, slice_type)
    [] var_type = "GlobalVar" -> GlobalVarSlice(func_obj, target, output, slice_type)
    [] var_type = "StructMember" -> StructMemberSlice(func_obj, target, output, slice_type)
    [] var_type = "FunctionParam" ->
         Only({ IF slice_type # "Backward" \/ param_refs = << >>
                THEN FunctionParamSlice(func_obj, target, output)
                ELSE OutputOf(func_obj,
                              trace_tainted_variable(func_obj, param_refs[1],
                                                     <<func_obj, target.variable.name>>, "Backward"),
                              TRUE, output) :
                param_refs \in {get_mlil_var_refs(func_obj, <<func_obj, target.variable.name>>)} })
    [] OTHER -> IF mlil_at(func_obj, target.loc) = 0 THEN NoResult ELSE Raise("TypeError", 0)

\* The body of tainted_slice once the function holding the target is known.
SliceIn(func_obj, target, var_type, output, slice_type) ==
  CASE var_type = "FunctionVar" -> FunctionVarSlice(func_obj, target, output, slice_type)
    [] var_type = "GlobalVar" -> GlobalVarSlice(func_obj, target, output, slice_type)
    [] var_type = "StructMember" -> StructMemberSlice(func_obj, target, output, slice_type)
    [] var_type = "FunctionParam" -> FunctionParamSlice(func_obj, target, output)
    [] OTHER -> IF mlil_at(func_obj, target.loc) = 0 THEN NoResult ELSE Raise("TypeError", 0)

\* Mutant: an address in no function raises ValueError instead of returning None.
tainted_slice_raising(target, var_type, output, slice_type) ==
  Only({ IF func_obj = 0 THEN Raise("ValueError", 0)
         ELSE SliceIn(func_obj, target, var_type, output, slice_type) :
         func_obj \in {addr_to_func(target.loc)} })

tainted_slice(target, var_type, output, slice_type) ==
  Only({ IF func_obj = 0 THEN NoResult
         ELSE SliceIn(func_obj, target, var_type, output, slice_type) :
         func_obj \in {addr_to_func(target.loc)} })

\* ------------------------------------------------------- functools.cache
\* The key of a call is made of the arguments as the caller passed them: an
\* omitted argument takes its default in the body but is absent from the key.
Default(v, d) == IF v = "Omitted" THEN d ELSE v

\* A call of the memoised tainted_slice: the cached object on a hit, else the
\* body's outcome, a returned value being a fresh object (None is the one None).
ts_call(key) ==
  IF key \in DOMAIN ts_cache
  THEN [r |-> [ts_cache[key] EXCEPT !.ran = 0], hit |-> TRUE]
  ELSE Only({ [r |-> IF r.st = "ok" THEN [r EXCEPT !.id = next_id] ELSE r, hit |-> FALSE] :
              r \in {tainted_slice(key.target, key.var_type, Default(key.output, "Returned"),
                                   Default(key.slice_type, "Forward"))} })

\* An exception leaves the cache as it was.
ts_cache_after(key, c) ==
  IF c.hit \/ c.r.st = "raise" THEN ts_cache ELSE ts_cache @@ (key :> c.r)

\* ------------------------------------------------------- get_sliced_calls
\* The arguments of the call at addr whose variable is among propagated_vars,
\* each with the matched value and its 1-based position.
RECURSIVE ParamMapFrom(_, _, _, _)
ParamMapFrom(addr, params, k, pvars) ==
  IF k > Len(params) THEN << >>
  ELSE LET v == <<addr[1], params[k]>>
           rest == ParamMapFrom(addr, params, k + 1, pvars)
       IN IF v \in Range(pvars)
          THEN << [param |-> <<addr, k>>, var |-> v, pos |-> k] >> \o rest
          ELSE rest

param_var_map(addr, pvars) == ParamMapFrom(addr, Body(addr[1])[addr[2]].args, 1, pvars)

\* The ordered dict built by the loop over the slice, from position k on;
\* int(str(loc.dest), 16) raises ValueError when the destination is no constant.
RECURSIVE SlicedCallsFrom(_, _, _, _)
SlicedCallsFrom(data, func_name, pvars, k) ==
  IF k > Len(data) THEN [st |-> "ok", calls |-> << >>]
  ELSE LET addr == data[k]
           loc == Body(addr[1])[addr[2]]
           rest == SlicedCallsFrom(data, func_name, pvars, k + 1)
       IN IF loc.op # "MLIL_CALL" THEN rest
          ELSE IF loc.dk # "const" THEN [st |-> "raise", calls |-> << >>]
          ELSE IF loc.df \notin Funcs THEN rest
          ELSE [rest EXCEPT !.calls =
                  << [key |-> <<func_name, addr>>, call_name |-> loc.df,
                      function_addr |-> Start(loc.df), loc |-> addr,
                      param_map |-> param_var_map(addr, pvars),
                      from_pvars |-> pvars] >> \o @]

get_sliced_calls(data, func_name, pvars) == SlicedCallsFrom(data, func_name, pvars, 1)

\* dict.update: the value of a key already present is replaced where it is,
\* a new key is appended.
RECURSIVE dict_update(_, _)
dict_update(d, n) ==
  IF n = << >> THEN d
  ELSE LET e == n[1]
           at == { i \in 1..Len(d) : d[i].key = e.key }
       IN Only({ dict_update(d1, Tail(n)) :
                 d1 \in {IF at = {} THEN Append(d, e)
                         ELSE [i \in 1..Len(d) |-> IF i \in at THEN e ELSE d[i]]} })

\* ---------------------------------------------------- the callers' inputs
Str(name) == [kind |-> "str", f |-> 0, name |-> name]
Variable(v) == [kind |-> "Variable", f |-> v[1], name |-> v[2]]
TaintTarget(loc, variable) == [loc |-> loc, variable |-> variable]

\* Seeds: a variable name (a parameter, a local, a name the function does not
\* have) at an address of function 1 (its first or second instruction, or
\* the address after the last one) or at an address outside every function.
SeedNames == {"p1", "x", "zz"}
SeedAddrs == {Start(1), Addr(1, 2), Addr(1, Len(Body(1)) + 1), BadAddr}
Seeds == { TaintTarget(a, Str(n)) : a \in SeedAddrs, n \in SeedNames }

NoArgs == [target |-> TaintTarget(BadAddr, Str("")), var_type |-> "", slice_type |-> "",
           output |-> "", analyze_imported_functions |-> FALSE]

Calls(targets, kinds, dirs, outs, imps) ==
  [target : targets, var_type : kinds, slice_type : dirs, output : outs,
   analyze_imported_functions : imps]

\* The top-level calls of Spec: every argument passed explicitly.
SpecCalls == Calls(Seeds, {"FunctionVar", "FunctionParam"}, {"Forward", "Backward"},
                   {"Returned", "Printed"}, BOOLEAN)

\* The top-level calls of SpecMemo: direction and output mode passed or left
\* to their defaults.
MemoSeeds == { TaintTarget(a, Str("p1")) : a \in {Start(1), BadAddr} }
MemoCalls == Calls(MemoSeeds, {"FunctionVar"}, {"Omitted", "Forward"},
                   {"Omitted", "Returned", "Printed"}, {FALSE})

\* The argument values the body of a call runs with.
Effective(a) == [a EXCEPT !.slice_type = Default(@, "Forward"), !.output = Default(@, "Returned")]

\* The key of tainted_slice's cache for the arguments a.
TSKey(a) == [target |-> a.target, var_type |-> a.var_type, output |-> a.output,
             slice_type |-> a.slice_type]

\* --------------------------------------------------------- complete_slice
NoValue == [st |-> "none", id |-> 0, val |-> << >>]

Item(r) == <<r.slice, r.pvars>>

\* OrderedDict((k, propagation_cache[k]) for k in call_flow)
OrderedDict(flow, cache) == [k \in 1..Len(flow) |-> <<flow[k], cache[flow[k]]>>]

imported_functions == { f \in Funcs : IsImported(f) }

ResetLocals ==
  /\ propagation_cache' = << >>
  /\ call_flow' = << >>
  /\ calls_analyzed' = << >>
  /\ propagated_vars' = << >>
  /\ sliced_calls_to_analyze' = << >>
  /\ new_calls' = << >>
  /\ qi' = 0
  /\ pi' = 0
  /\ func_param_to_analyze' = NoneVar
  /\ started' = << >>
  /\ computed' = << >>

Idle == pc \in {"idle", "returned", "raised"}

Logged(name, a, r, ran) == Append(log, [api |-> name, args |-> a, id |-> r.id, st |-> r.st, ran |-> ran])

\* A top-level call of tainted_slice.
CallTaintedSlice(a, limit) ==
  /\ Idle /\ ninv < limit
  /\ \E c \in {ts_call(TSKey(a))} :
        /\ ts_cache' = ts_cache_after(TSKey(a), c)
        /\ slicer_runs' = slicer_runs + c.r.ran
        /\ next_id' = IF ~c.hit /\ c.r.st = "ok" THEN next_id + 1 ELSE next_id
        /\ pc' = IF c.r.st = "raise" THEN "raised" ELSE "returned"
        /\ exc' = c.r.exc
        /\ result' = IF c.r.st = "raise" THEN NoValue
                     ELSE [st |-> c.r.st, id |-> c.r.id,
                           val |-> IF c.r.st = "ok" THEN <<c.r.slice, c.r.fname, c.r.pvars>> ELSE << >>]
        /\ log' = IF c.r.st = "raise" THEN log ELSE Logged("tainted_slice", a, c.r, c.r.ran)
  /\ api' = "tainted_slice" /\ args' = a /\ ninv' = ninv + 1
  /\ entry_runs' = slicer_runs
  /\ ResetLocals
  /\ UNCHANGED << prog, cs_cache, frames, tainted_param_map, descents >>

\* The unpacking of the initial tainted_slice: a TypeError (also the one of
\* unpacking None) is raised again as TypeError, any other exception passes.
InitialExc(r) == IF r.st = "none" THEN "TypeError" ELSE r.exc

\* The initial tainted_slice call of complete_slice: target, var_type and
\* slice_type are passed by keyword, output is not passed.
InitialKey(a) == [target |-> a.target, var_type |-> a.var_type, output |-> "Omitted",
                  slice_type |-> Default(a.slice_type, "Forward")]

\* The tainted_slice call on the callee's parameter.
CalleeKey(function_addr, param, slice_type) ==
  [target |-> TaintTarget(function_addr, Variable(param)), var_type |-> "FunctionParam",
   output |-> "Omitted", slice_type |-> Default(slice_type, "Forward")]

\* A top-level call of complete_slice up to the while loop: a cache hit
\* returns at once, else the initial slice is taken and its calls extracted.
CallCompleteSlice(a, limit) ==
  /\ Idle /\ ninv < limit
  /\ api' = "complete_slice" /\ args' = a /\ ninv' = ninv + 1
  /\ entry_runs' = slicer_runs
  /\ UNCHANGED << prog, cs_cache, frames, tainted_param_map, descents >>
  /\ IF a \in DOMAIN cs_cache
     THEN /\ result' = cs_cache[a]
          /\ pc' = "returned" /\ exc' = ""
          /\ log' = Logged("complete_slice", a, cs_cache[a], 0)
          /\ ResetLocals
          /\ UNCHANGED << ts_cache, slicer_runs, next_id >>
     ELSE \E c \in {ts_call(InitialKey(a))} :
          LET key == InitialKey(a)
              r == c.r
              k0 == <<r.fname, str_to_var_object(a.target.variable.name, r.fname)>>
          IN /\ ts_cache' = ts_cache_after(key, c)
             /\ slicer_runs' = slicer_runs + r.ran
             /\ next_id' = IF ~c.hit /\ r.st = "ok" THEN next_id + 1 ELSE next_id
             /\ result' = NoValue
             /\ log' = log
             /\ IF r.st # "ok"
                THEN /\ pc' = "raised" /\ exc' = InitialExc(r)
                     /\ ResetLocals
                ELSE /\ propagation_cache' = (k0 :> Item(r))
                     /\ call_flow' = <<k0>>
                     /\ computed' = (k0 :> Item(r))
                     /\ propagated_vars' = r.pvars
                     /\ calls_analyzed' = << >>
                     /\ started' = << >>
                     /\ new_calls' = << >>
                     /\ qi' = 0 /\ pi' = 0
                     /\ func_param_to_analyze' = NoneVar
                     /\ \E sc \in {get_sliced_calls(r.slice, r.fname, r.pvars)} :
                          IF sc.st = "raise"
                          THEN /\ pc' = "raised" /\ exc' = "ValueError"
                               /\ sliced_calls_to_analyze' = << >>
                          ELSE /\ pc' = "while" /\ exc' = ""
                               /\ sliced_calls_to_analyze' = sc.calls

Frame == UNCHANGED << prog, api, args, ninv, cs_cache, entry_runs,
                   frames, tainted_param_map, descents >>

\* while sliced_calls_to_analyze: new_calls = {}
While ==
  /\ pc = "while"
  /\ IF sliced_calls_to_analyze = << >>
     THEN pc' = "output" /\ UNCHANGED << new_calls, qi >>
     ELSE pc' = "for" /\ new_calls' = << >> /\ qi' = 1
  /\ Frame
  /\ UNCHANGED << exc, result, propagation_cache, call_flow, calls_analyzed, propagated_vars,
                  sliced_calls_to_analyze, pi, func_param_to_analyze, ts_cache, next_id,
                  slicer_runs, started, computed, log >>

\* The head of the for loop over the queue: an entry is skipped when
\* analyze_imported_functions is set and the callee is an imported function.
ForCall ==
  /\ pc = "for" /\ qi <= Len(sliced_calls_to_analyze)
  /\ LET data == sliced_calls_to_analyze[qi]
     IN IF args.analyze_imported_functions /\ data.call_name \in imported_functions
        THEN qi' = qi + 1 /\ UNCHANGED << pc, pi, func_param_to_analyze >>
        ELSE pc' = "params" /\ pi' = 1 /\ func_param_to_analyze' = NoneVar /\ qi' = qi
  /\ Frame
  /\ UNCHANGED << exc, result, propagation_cache, call_flow, calls_analyzed, propagated_vars,
                  sliced_calls_to_analyze, new_calls, ts_cache, next_id, slicer_runs,
                  started, computed, log >>

\* Mutant: the queue is not replaced by the calls found in this round.
ForEndKeepsQueue ==
  /\ pc = "for" /\ qi > Len(sliced_calls_to_analyze)
  /\ pc' = "while"
  /\ Frame
  /\ UNCHANGED << exc, result, propagation_cache, call_flow, calls_analyzed, propagated_vars,
                  sliced_calls_to_analyze, new_calls, qi, pi, func_param_to_analyze, ts_cache,
                  next_id, slicer_runs, started, computed, log >>

\* sliced_calls_to_analyze = new_calls, at the end of the for loop.
ForEnd ==
  /\ pc = "for" /\ qi > Len(sliced_calls_to_analyze)
  /\ sliced_calls_to_analyze' = new_calls
  /\ pc' = "while"
  /\ Frame
  /\ UNCHANGED << exc, result, propagation_cache, call_flow, calls_analyzed, propagated_vars,
                  new_calls, qi, pi, func_param_to_analyze, ts_cache, next_id, slicer_runs,
                  started, computed, log >>

\* The callee parameter at position arg_pos, else the value the local had.
ParamAt(g, arg_pos, old) ==
  IF arg_pos \in 1..Len(Params(g)) THEN <<g, Params(g)[arg_pos]>> ELSE old

\* Mutant: the tuples already expanded are not looked up.
ExpandsAgain(item, data) == item.var \in Range(propagated_vars)

\* Mutant: the argument's variable is not looked up in propagated_vars.
ExpandsUnchecked(item, data) ==
  <<item.param, item.pos, data.call_name, data.key[2]>> \notin Range(calls_analyzed)

\* Whether the iteration for item of the call data goes on to slice the callee.
Expands(item, data) ==
  /\ item.var \in Range(propagated_vars)
  /\ <<item.param, item.pos, data.call_name, data.key[2]>> \notin Range(calls_analyzed)

\* Mutant: a later slice of a key overwrites the one stored.
StoreOverwrites(cache, new_key, r) == (new_key :> Item(r)) @@ cache

\* if new_key not in propagation_cache: store the slice and record the key.
Store(cache, new_key, r) == IF new_key \in DOMAIN cache THEN cache ELSE cache @@ (new_key :> Item(r))
Discover(flow, cache, new_key) == IF new_key \in DOMAIN cache THEN flow ELSE Append(flow, new_key)

\* One iteration of the loop over param_map.
ParamIter ==
  /\ pc = "params"
  /\ pi <= Len(sliced_calls_to_analyze[qi].param_map)
  /\ Frame
  /\ UNCHANGED << result, sliced_calls_to_analyze, qi, log >>
  /\ LET data == sliced_calls_to_analyze[qi]
         item == data.param_map[pi]
         analyzed_key == <<item.param, item.pos, data.call_name, data.key[2]>>
         g == addr_to_func(data.function_addr)
         fpa == ParamAt(g, item.pos, func_param_to_analyze)
         key == CalleeKey(data.function_addr, fpa, args.slice_type)
     IN IF ~Expands(item, data)
        THEN /\ pi' = pi + 1
             /\ UNCHANGED << pc, exc, propagation_cache, call_flow, calls_analyzed,
                             propagated_vars, new_calls, func_param_to_analyze, ts_cache,
                             next_id, slicer_runs, started, computed >>
        ELSE /\ calls_analyzed' = Append(calls_analyzed, analyzed_key)
             /\ func_param_to_analyze' = fpa
             /\ IF fpa = NoneVar
                THEN /\ pi' = pi + 1
                     /\ UNCHANGED << pc, exc, propagation_cache, call_flow, propagated_vars,
                                     new_calls, ts_cache, next_id, slicer_runs, started,
                                     computed >>
                ELSE \E c \in {ts_call(key)} :
                     LET r == c.r
                         new_key == <<r.fname, fpa>>
                     IN
                     /\ started' = Append(started, [key |-> analyzed_key, site |-> data.key,
                                                    callee |-> g, param |-> fpa,
                                                    arg |-> item.var, pos |-> item.pos,
                                                    from_pvars |-> data.from_pvars,
                                                    st |-> r.st, slice |-> r.slice,
                                                    cur_pvars |-> propagated_vars])
                     /\ ts_cache' = ts_cache_after(key, c)
                     /\ slicer_runs' = slicer_runs + r.ran
                     /\ next_id' = IF ~c.hit /\ r.st = "ok" THEN next_id + 1 ELSE next_id
                     /\ IF r.st # "ok"
                        THEN /\ pc' = "raised"
                             /\ exc' = InitialExc(r)
                             /\ UNCHANGED << propagation_cache, call_flow, propagated_vars,
                                             new_calls, pi, computed >>
                        ELSE /\ propagated_vars' = r.pvars
                             /\ propagation_cache' = Store(propagation_cache, new_key, r)
                             /\ call_flow' = Discover(call_flow, propagation_cache, new_key)
                             /\ computed' = IF new_key \in DOMAIN computed THEN computed
                                            ELSE computed @@ (new_key :> Item(r))
                             /\ \E nsc \in {get_sliced_calls(r.slice, r.fname, r.pvars)} :
                                  IF nsc.st = "raise"
                                  THEN pc' = "raised" /\ exc' = "ValueError"
                                       /\ UNCHANGED << new_calls, pi >>
                                  ELSE /\ new_calls' = dict_update(new_calls, nsc.calls)
                                       /\ pi' = pi + 1
                                       /\ UNCHANGED << pc, exc >>

\* The end of the loop over param_map: on to the next entry of the queue.
ParamsEnd ==
  /\ pc = "params"
  /\ pi > Len(sliced_calls_to_analyze[qi].param_map)
  /\ pc' = "for" /\ qi' = qi + 1
  /\ Frame
  /\ UNCHANGED << exc, result, propagation_cache, call_flow, calls_analyzed, propagated_vars,
                  sliced_calls_to_analyze, new_calls, pi, func_param_to_analyze, ts_cache,
                  next_id, slicer_runs, started, computed, log >>

\* The output mode only prints; the ordered dict is returned and cached.
Return ==
  /\ pc = "output"
  /\ LET r == [st |-> "ok", id |-> next_id, val |-> OrderedDict(call_flow, propagation_cache)]
     IN /\ result' = r
        /\ cs_cache' = cs_cache @@ (args :> r)
        /\ log' = Logged("complete_slice", args, r, slicer_runs - entry_runs)
  /\ next_id' = next_id + 1
  /\ pc' = "returned"
  /\ UNCHANGED << prog, api, args, ninv, exc, propagation_cache, call_flow, calls_analyzed,
                  propagated_vars, sliced_calls_to_analyze, new_calls, qi, pi,
                  func_param_to_analyze, ts_cache, slicer_runs, started, computed,
                  entry_runs, frames, tainted_param_map, descents >>

\* --------------------------------------- parameter/return taint resolver
\* An SSA variable of function f, and a callee parameter's name as the
\* resolver compares it.
SSAVar(f, name) == [kind |-> "SSAVariable", f |-> f, name |-> name]
NoSSAVar == [kind |-> "None", f |-> 0, name |-> ""]

TaintedVar(variable, loc_address) ==
  [variable |-> variable, confidence_level |-> "Tainted", loc_address |-> loc_address]

\* {tv.variable for tv in tainted_variables}
Underlying(tainted_variables) == { tv.variable : tv \in tainted_variables }

vars_read(f, ins) == { SSAVar(f, n) : n \in Range(ins.r) }
vars_written(f, ins) == { SSAVar(f, n) : n \in Range(ins.w) }

\* str_param_to_var_object(function_node, param, ssa_form=True): the SSA
\* variable of the parameter of that name, NoSSAVar for the ValueError.
str_param_to_var_object(f, name) ==
  IF name \in Range(Params(f)) THEN SSAVar(f, name) ELSE NoSSAVar

\* The seeds as the caller passes them: one value, or a list of values.
One(item) == [form |-> "single", items |-> <<item>>]
List(items) == [form |-> "list", items |-> items]
NoSeeds == [form |-> "None", items |-> << >>]

\* Seeding that gives up at the first name that does not convert.
SeedsOfUntilBad(f, tainted_params) ==
  IF tainted_params.form # "list" THEN {}
  ELSE LET items == tainted_params.items
           bad == { k \in 1..Len(items) :
                      items[k].kind = "str" /\ str_param_to_var_object(f, items[k].name) = NoSSAVar }
       IN { TaintedVar(IF items[k].kind = "str" THEN str_param_to_var_object(f, items[k].name)
                       ELSE items[k], Start(f)) :
            k \in { j \in 1..Len(items) : \A b \in bad : j < b } }

\* The tainted values the seeds give. A value that is not a list is replaced
\* by [get_ssa_variable(...)], which holds None or an SSAVariable: the loop
\* over it matches neither str nor Variable and seeds nothing. In a list, a
\* name that converts is seeded in SSA form, a name that does not is dropped,
\* and a Variable is seeded as it is.
SeedsOf(f, tainted_params) ==
  IF tainted_params.form # "list" THEN {}
  ELSE { TaintedVar(IF p.kind = "str" THEN str_param_to_var_object(f, p.name) ELSE p, Start(f)) :
           p \in { q \in Range(tainted_params.items) :
                     q.kind = "str" => str_param_to_var_object(f, q.name) # NoSSAVar } }

\* A fresh invocation: the state of its locals when the pass over the
\* instructions begins.
Invocation(f, tainted_params, origin_function, original_tainted_params, limit, counter) ==
  [function_node |-> f,
   origin_function |-> IF origin_function = 0 THEN f ELSE origin_function,
   original_tainted_params |-> IF original_tainted_params = NoSeeds THEN tainted_params
                               ELSE original_tainted_params,
   recursion_limit |-> limit,
   sub_functions_analyzed |-> counter,
   tainted_variables |-> SeedsOf(f, tainted_params),
   variable_mapping |-> << >>,
   i |-> 1]

\* variable_mapping[var_assignment] = loc.vars_read, for every variable written.
Mapped(variable_mapping, written, read) ==
  [v \in DOMAIN variable_mapping \cup written |->
     IF v \in written THEN read ELSE variable_mapping[v]]

\* If any variable read is tainted, every variable written becomes tainted.
SpreadByReads(tainted_variables, read, written, address) ==
  IF read \cap Underlying(tainted_variables) # {}
  THEN tainted_variables \cup { TaintedVar(w, address) : w \in written }
  ELSE tainted_variables

\* The end of the loop body, after the match statement.
AfterMatch(fr, tainted_variables) ==
  LET f == fr.function_node
      ins == Body(f)[fr.i]
  IN [fr EXCEPT !.variable_mapping = Mapped(@, vars_written(f, ins), vars_read(f, ins)),
                !.tainted_variables = SpreadByReads(tainted_variables, vars_read(f, ins),
                                                    vars_written(f, ins), Addr(f, fr.i)),
                !.i = @ + 1]

\* The operand of a store's destination as the resolver holds it: the
\* MediumLevelILVarSsa instruction of a variable, and None.
VarSsa(f, name) == [kind |-> "MediumLevelILVarSsa", f |-> f, name |-> name]
NoOperand == [kind |-> "None", f |-> 0, name |-> ""]

TaintedAddressOfField(variable, offset, offset_var, loc_address, targ_function) ==
  [variable |-> variable, offset |-> offset, offset_var |-> offset_var,
   confidence_level |-> "Tainted", loc_address |-> loc_address, targ_function |-> targ_function]

\* The tainted value a store adds. A destination of one operand gives the
\* stored-to variable and no offset; [(base + constant) + off] gives the
\* base's instruction, the constant and off as an offset that is not tainted.
Stored(fr) ==
  LET f == fr.function_node
      ins == Body(f)[fr.i]
      at == Addr(f, fr.i)
  IN IF ins.dest = "var"
     THEN TaintedAddressOfField(SSAVar(f, ins.base), "None",
                                [variable |-> NoOperand, confidence_level |-> "NotTainted",
                                 loc_address |-> at], at, f)
     ELSE TaintedAddressOfField(VarSsa(f, ins.base), "constant",
                                [variable |-> VarSsa(f, ins.off), confidence_level |-> "NotTainted",
                                 loc_address |-> at], at, f)

\* The exception the match statement ends with, "" when it ends normally: a
\* call through a variable fails at int(str(loc.dest), 16); a store to
\* [base + off] fails at unpacking the one operand of base; a store with an
\* offset operand reads var.variable of the keys of variable_mapping, which
\* are SSAVariables, as soon as there is a key.
RaisedBy(fr) ==
  LET ins == Body(fr.function_node)[fr.i]
  IN CASE ins.op = "MLIL_CALL" /\ ins.dk = "indirect" -> "ValueError"
       [] ins.op = "MLIL_STORE" /\ ins.dest = "sum" -> "ValueError"
       [] ins.op = "MLIL_STORE" /\ ins.dest = "indexed" /\ DOMAIN fr.variable_mapping # {}
            -> "AttributeError"
       [] OTHER -> ""

\* A match statement that keeps only what the instruction adds.
MatchedAnew(fr) ==
  LET f == fr.function_node
      ins == Body(f)[fr.i]
  IN CASE ins.op \in {"MLIL_SET_VAR", "MLIL_SET_VAR_FIELD"} ->
            { TaintedVar(w, Addr(f, fr.i)) : w \in vars_written(f, ins) }
       [] ins.op = "MLIL_STORE" -> {Stored(fr)}
       [] OTHER -> {}

\* The match statement for an instruction that is no call: a definition
\* taints every variable it writes, a store adds its destination, a return
\* and an operation with no case add nothing.
Matched(fr) ==
  LET f == fr.function_node
      ins == Body(f)[fr.i]
  IN CASE ins.op \in {"MLIL_SET_VAR", "MLIL_SET_VAR_FIELD"} ->
            fr.tainted_variables \cup { TaintedVar(w, Addr(f, fr.i)) : w \in vars_written(f, ins) }
       [] ins.op = "MLIL_STORE" -> fr.tainted_variables \cup {Stored(fr)}
       [] OTHER -> fr.tainted_variables

\* zip(call_params, call_object.parameter_vars): the positions both have.
Zipped(ins, callee) == 1..(IF Len(ins.args) < Len(Params(callee)) THEN Len(ins.args)
                           ELSE Len(Params(callee)))

\* The callee's parameter names whose argument is tainted, in order.
RECURSIVE SubParamsFrom(_, _, _, _)
SubParamsFrom(fr, ins, callee, k) ==
  IF k \notin Zipped(ins, callee) THEN << >>
  ELSE (IF SSAVar(fr.function_node, ins.args[k]) \in Underlying(fr.tainted_variables)
        THEN << Str(Params(callee)[k]) >> ELSE << >>)
       \o SubParamsFrom(fr, ins, callee, k + 1)

tainted_sub_params(fr, ins, callee) == SubParamsFrom(fr, ins, callee, 1)

\* The test that guards the recursive call.
Descends(recursion_limit, sub_functions_analyzed) == recursion_limit < sub_functions_analyzed

\* The bound the recursive call runs with: the call passes neither
\* recursion_limit nor sub_functions_analyzed, so the callee takes the
\* defaults of the signature.
NestedBudgetThreaded(recursion_limit, sub_functions_analyzed) ==
  [recursion_limit |-> recursion_limit, sub_functions_analyzed |-> sub_functions_analyzed]

NestedBudget(recursion_limit, sub_functions_analyzed) ==
  [recursion_limit |-> 8, sub_functions_analyzed |-> 0]

\* walk_variable: the names the start set reaches through the mapping;
\* depth counts the nested calls, and a walk deeper than WalkDepth ends with
\* the interpreter's RecursionError.
RECURSIVE walk_variable(_, _, _)
walk_variable(var_mapping, key_names, depth) ==
  IF key_names \cap DOMAIN var_mapping = {} THEN [st |-> "ok", val |-> key_names]
  ELSE IF depth >= WalkDepth THEN [st |-> "raise", val |-> {}]
  ELSE walk_variable(var_mapping,
                     UNION { IF v \in DOMAIN var_mapping THEN var_mapping[v] ELSE {v} :
                             v \in key_names },
                     depth + 1)

\* The parameters reported: the walked names that are names of parameters
\* of origin_function.
tainted_parameters(fr, walked) ==
  { v \in walked : v.name \in Range(Params(fr.origin_function)) }

\* origin_function.get_llil_at(address) is an instruction.
get_llil_at(f, a) == a[1] = f /\ a[2] \in 1..Len(Body(f))

\* variable.use_sites: the instructions of the variable's function that read
\* it. An SSAVariable has the attribute; whether a Variable, or the operand
\* instruction a store's tainted value holds, has it depends on the Binary
\* Ninja API at hand (NoUseSites: reading it is an AttributeError).
NoUseSites(fr) ==
  \E t_var \in fr.tainted_variables :
     t_var.variable.kind # "SSAVariable" /\ get_llil_at(fr.origin_function, t_var.loc_address)

use_sites(v) == { i \in 1..Len(Body(v.f)) : v.name \in Range(Body(v.f)[i].r) }

ret_variable_tainted(fr) ==
  \E t_var \in fr.tainted_variables :
     /\ get_llil_at(fr.origin_function, t_var.loc_address)
     /\ t_var.variable.f \in Funcs
     /\ \E use_site \in use_sites(t_var.variable) :
           Body(t_var.variable.f)[use_site].op = "MLIL_RET"

\* The aliasing map after an invocation that found the parameters params
\* tainted, with first the parameter list(params)[0] and skipped the
\* parameter list(set(params))[0], which the slice [1:] leaves out.
AliasMapAfter(map, params, first, skipped) ==
  IF Cardinality(params) > 1
  THEN [k \in DOMAIN map \cup {first} |-> IF k = first THEN params \ {skipped} ELSE map[k]]
  ELSE map

\* The maps an invocation can leave: the iteration order of a set is the
\* interpreter's choice. The copy set(params) can iterate in another order
\* than params: the interpreter copies the table of a set of fewer than five
\* elements slot by slot, and lays a larger one out anew in a table of
\* another size.
AliasMaps(map, params) ==
  IF Cardinality(params) > 1
  THEN UNION { { AliasMapAfter(map, params, first, skipped) :
                 skipped \in IF Cardinality(params) >= 5 THEN params ELSE {first} } :
               first \in params }
  ELSE {map}

InterprocTaintResult(fr, params, map) ==
  [tainted_param_names |-> params,
   original_tainted_variables |-> fr.original_tainted_params,
   is_return_tainted |-> ret_variable_tainted(fr),
   tainted_param_map |-> map]

\* After the recursive call: the counter is increased, the arguments whose
\* parameter name is among the reported tainted_param_names and, if the
\* callee's return is tainted, the variables the call writes become tainted.
AfterCall(fr, interproc_results) ==
  LET f == fr.function_node
      ins == Body(f)[fr.i]
      callee == ins.df
      at == Addr(f, fr.i)
      tainted_sub_variables ==
        { SSAVar(f, ins.args[k]) : k \in { j \in Zipped(ins, callee) :
              Str(Params(callee)[j]) \in interproc_results.tainted_param_names } }
      returned == IF interproc_results.is_return_tainted THEN vars_written(f, ins) ELSE {}
  IN AfterMatch([fr EXCEPT !.sub_functions_analyzed = @ + 1],
                fr.tainted_variables
                  \cup { TaintedVar(v, at) : v \in tainted_sub_variables \cup returned })

\* The function a function_node argument names: a Function object, or an
\* address resolved with addr_to_func (0 when no function holds it).
Fn(f) == [kind |-> "Function", f |-> f, addr |-> BadAddr]
At(addr) == [kind |-> "int", f |-> 0, addr |-> addr]
FunctionOf(function_node) ==
  IF function_node.kind = "int" THEN addr_to_func(function_node.addr) ELSE function_node.f

Resolving == api = "is_function_param_tainted" /\ pc = "resolving" /\ frames # << >>
Top == frames[Len(frames)]
AtInstruction == Resolving /\ Top.i <= Len(Body(Top.function_node))
AtResolvedCall ==
  /\ AtInstruction
  /\ Body(Top.function_node)[Top.i].op = "MLIL_CALL"
  /\ Body(Top.function_node)[Top.i].dk = "const"
  /\ Body(Top.function_node)[Top.i].df # 0

ResolverFrame ==
  UNCHANGED << prog, api, args, ninv, result, propagation_cache, call_flow, calls_analyzed,
               propagated_vars, sliced_calls_to_analyze, new_calls, qi, pi,
               func_param_to_analyze, ts_cache, cs_cache, next_id, slicer_runs,
               started, computed, log, entry_runs >>

\* An exception leaves every invocation on the stack.
ResolverRaises(e) == pc' = "raised" /\ exc' = e /\ frames' = << >>

Replaced(stack, fr) == [stack EXCEPT ![Len(stack)] = fr]

Visit(fr, descended) ==
  [site |-> Addr(fr.function_node, fr.i), callee |-> Body(fr.function_node)[fr.i].df,
   recursion_limit |-> fr.recursion_limit, sub_functions_analyzed |-> fr.sub_functions_analyzed,
   depth |-> Len(frames), descended |-> descended]

\* A top-level call of is_function_param_tainted, up to the first instruction.
CallResolver(a) ==
  /\ Idle /\ ninv < 1
  /\ api' = "is_function_param_tainted" /\ args' = a /\ ninv' = ninv + 1
  /\ \E f \in {FunctionOf(a.function_node)} :
        IF f = 0 THEN ResolverRaises("ValueError")
        ELSE /\ pc' = "resolving" /\ exc' = ""
             /\ frames' = << Invocation(f, a.tainted_params, a.origin_function,
                                        a.original_tainted_params, a.recursion_limit,
                                        a.sub_functions_analyzed) >>
  /\ tainted_param_map' = << >> /\ descents' = << >> /\ result' = NoValue
  /\ entry_runs' = slicer_runs
  /\ ResetLocals
  /\ UNCHANGED << prog, ts_cache, cs_cache, next_id, slicer_runs, log >>

\* One instruction of the pass that makes no recursive call: the match
\* statement may raise, and a call of no function skips the rest of the loop
\* body.
Pass ==
  /\ AtInstruction
  /\ ~(AtResolvedCall /\ Descends(Top.recursion_limit, Top.sub_functions_analyzed))
  /\ \E fr \in {Top} : \E ins \in {Body(fr.function_node)[fr.i]} :
        IF RaisedBy(fr) # ""
        THEN ResolverRaises(RaisedBy(fr)) /\ UNCHANGED descents
        ELSE /\ frames' = Replaced(frames,
                            IF ins.op = "MLIL_CALL" /\ ins.df = 0 THEN [fr EXCEPT !.i = @ + 1]
                            ELSE AfterMatch(fr, Matched(fr)))
             /\ descents' = IF ins.op = "MLIL_CALL" /\ ins.df # 0
                            THEN Append(descents, Visit(fr, FALSE)) ELSE descents
             /\ UNCHANGED << pc, exc >>
  /\ UNCHANGED tainted_param_map
  /\ ResolverFrame

\* The recursive call at a call instruction; an interpreter stack that is
\* full ends the analysis with RecursionError.
Descend ==
  /\ AtResolvedCall
  /\ Descends(Top.recursion_limit, Top.sub_functions_analyzed)
  /\ \E fr \in {Top} : \E ins \in {Body(fr.function_node)[fr.i]} :
     \E budget \in {NestedBudget(fr.recursion_limit, fr.sub_functions_analyzed)} :
        /\ descents' = Append(descents, Visit(fr, TRUE))
        /\ IF Len(frames) >= RecursionDepth THEN ResolverRaises("RecursionError")
           ELSE /\ frames' = Append(frames,
                               Invocation(ins.df, List(tainted_sub_params(fr, ins, ins.df)),
                                          fr.origin_function, fr.original_tainted_params,
                                          budget.recursion_limit, budget.sub_functions_analyzed))
                /\ UNCHANGED << pc, exc >>
  /\ UNCHANGED tainted_param_map
  /\ ResolverFrame

AtEnd == Resolving /\ Top.i > Len(Body(Top.function_node))

\* The results an invocation that finished its pass can return: the walk
\* may end with RecursionError, with several tainted parameters the key of
\* the aliasing edge is the first of a set's iteration order, and the use
\* sites of a tainted Variable may be missing.
Outcomes(fr, map) ==
  LET walked == walk_variable(fr.variable_mapping, Underlying(fr.tainted_variables), 1)
  IN IF walked.st = "raise"
     THEN { [st |-> "raise", exc |-> "RecursionError", map |-> map, res |-> << >>] }
     ELSE Only({ { [st |-> "ok", exc |-> "", map |-> m,
                    res |-> InterprocTaintResult(fr, params, m)] :
                   m \in AliasMaps(map, params) }
                 \cup { [st |-> "raise", exc |-> "AttributeError", map |-> m, res |-> << >>] :
                        m \in IF NoUseSites(fr) THEN AliasMaps(map, params) ELSE {} } :
                 params \in {tainted_parameters(fr, walked.val)} })

\* A recursive invocation returns to the call instruction of its caller.
NestedReturn ==
  /\ AtEnd /\ Len(frames) > 1
  /\ \E o \in Outcomes(Top, tainted_param_map) :
        IF o.st = "raise" THEN ResolverRaises(o.exc) /\ tainted_param_map' = o.map
        ELSE /\ tainted_param_map' = o.map
             /\ frames' = Replaced(SubSeq(frames, 1, Len(frames) - 1),
                                   AfterCall(frames[Len(frames) - 1], o.res))
             /\ UNCHANGED << pc, exc >>
  /\ UNCHANGED descents
  /\ ResolverFrame

\* The top-level invocation returns its InterprocTaintResult.
ResolverReturn ==
  /\ AtEnd /\ Len(frames) = 1
  /\ \E o \in Outcomes(Top, tainted_param_map) :
        IF o.st = "raise"
        THEN ResolverRaises(o.exc) /\ tainted_param_map' = o.map /\ UNCHANGED result
        ELSE /\ tainted_param_map' = o.map
             /\ result' = [st |-> "ok", id |-> 0, val |-> o.res]
             /\ pc' = "returned" /\ frames' = << >> /\ exc' = ""
  /\ UNCHANGED descents
  /\ UNCHANGED << prog, api, args, ninv, propagation_cache, call_flow, calls_analyzed,
                  propagated_vars, sliced_calls_to_analyze, new_calls, qi, pi,
                  func_param_to_analyze, ts_cache, cs_cache, next_id, slicer_runs,
                  started, computed, log, entry_runs >>

\* ------------------------------------------------------- specifications
InitWith(programs) ==
  /\ prog \in programs
  /\ api = "none" /\ args = NoArgs /\ pc = "idle" /\ exc = "" /\ result = NoValue
  /\ propagation_cache = << >> /\ call_flow = << >> /\ calls_analyzed = << >>
  /\ propagated_vars = << >> /\ sliced_calls_to_analyze = << >> /\ new_calls = << >>
  /\ qi = 0 /\ pi = 0 /\ func_param_to_analyze = NoneVar
  /\ ts_cache = << >> /\ cs_cache = << >> /\ next_id = 1 /\ slicer_runs = 0
  /\ ninv = 0 /\ started = << >> /\ computed = << >> /\ log = << >> /\ entry_runs = 0
  /\ frames = << >> /\ tainted_param_map = << >> /\ descents = << >>

Steps == While \/ ForCall \/ ForEnd \/ ParamIter \/ ParamsEnd \/ Return

\* One top-level call on a fresh Analysis instance, over every program.
Init == InitWith(Programs)

Next ==
  \/ \E a \in SpecCalls : CallCompleteSlice(a, 1)
  \/ \E a \in { c \in SpecCalls : ~c.analyze_imported_functions } : CallTaintedSlice(a, 1)
  \/ Steps

Spec == Init /\ [][Next]_vars

\* The calls run on one thread: a call that can take a step takes it.
FairSpec == Spec /\ WF_vars(Next)

\* Several top-level calls, one after the other, on the same Analysis
\* instance, over the programs whose functions are all self-recursive or all
\* call the next function.
MemoPrograms == { [f \in Funcs |-> t] : t \in {3, 4} }

InitMemo == InitWith(MemoPrograms)

NextMemo ==
  \/ \E a \in MemoCalls : CallCompleteSlice(a, MaxInvocations)
  \/ \E a \in MemoCalls : CallTaintedSlice(a, MaxInvocations)
  \/ Steps

SpecMemo == InitMemo /\ [][NextMemo]_vars

\* Single top-level calls of tainted_slice, over every variable kind, with
\* valid and invalid directions and output modes, on programs whose function 1
\* is a leaf or starts with a struct access.
SlicePrograms == { [f \in Funcs |-> IF f = 1 THEN t ELSE 1] : t \in {1} \cup StructTemplateIds }
SliceSeeds == { TaintTarget(a, Str(n)) : a \in {Start(1), Addr(1, 2), BadAddr},
                                         n \in {"p1", "x", "zz", "g", "d"} }
SliceCalls == Calls(SliceSeeds, {"FunctionVar", "GlobalVar", "StructMember", "FunctionParam"},
                    {"Forward", "Backward", "Sideways"}, {"Returned", "Printed", "Quiet"}, {FALSE})

InitSlice == InitWith(SlicePrograms)

NextSlice == \E a \in SliceCalls : CallTaintedSlice(a, 1)

SpecSlice == InitSlice /\ [][NextSlice]_vars

\* Single complete_slice calls seeded at a variable a call reads or writes, on
\* programs whose function 1 calls itself or the next function.
SitePrograms == { [f \in Funcs |-> IF f = 1 THEN t ELSE 1] : t \in {3, 4, 6, 23} }
SiteSeeds == { TaintTarget(a, Str(n)) : a \in {Start(1), Addr(1, 2)}, n \in {"x", "y", "p1"} }
SiteCalls == Calls(SiteSeeds, {"FunctionVar"}, {"Forward", "Backward"}, {"Returned"}, {FALSE})

InitSites == InitWith(SitePrograms)

NextSites == (\E a \in SiteCalls : CallCompleteSlice(a, 1)) \/ Steps

SpecSites == InitSites /\ [][NextSites]_vars

\* Single top-level calls of is_function_param_tainted, on programs whose
\* function 1 calls no function, itself or the next function, with the
\* recursion bound at its default, at zero and below the counter.
ResolverPrograms ==
  { [f \in Funcs |-> IF f = 1 THEN t ELSE u] : t \in {1, 3, 5, 6, 7, 8}, u \in {2, 6, 7} }
ResolverSeeds ==
  { One(Str("p1")), List(<< >>), List(<<Str("p1")>>), List(<<Str("zz"), Str("p1")>>),
    List(<<Str("p1"), Str("p2")>>) }
ResolverCalls ==
  { [function_node |-> n, tainted_params |-> s, origin_function |-> o,
     original_tainted_params |-> NoSeeds, recursion_limit |-> l, sub_functions_analyzed |-> c] :
    n \in {Fn(1), At(Start(1)), At(BadAddr)}, s \in ResolverSeeds, o \in {0, 2},
    l \in {0 - 1, 0, 8}, c \in {0, 1} }

InitResolver == InitWith(ResolverPrograms)

ResolverSteps == Pass \/ Descend \/ NestedReturn \/ ResolverReturn

NextResolver == (\E a \in ResolverCalls : CallResolver(a)) \/ ResolverSteps

SpecResolver == InitResolver /\ [][NextResolver]_vars

\* The resolver runs on one thread: an invocation that can take a step takes it.
FairSpecResolver == SpecResolver /\ WF_vars(NextResolver)

\* Single top-level calls of is_function_param_tainted on a leaf function,
\* with the seed given as a name, as a Variable, or as a list of names and
\* Variables.
SeedForms ==
  { One(Str("p1")), One(Variable(<<1, "p1">>)), List(<<Str("p1")>>),
    List(<<Variable(<<1, "p1">>)>>), One(Str("p2")), List(<<Str("p2")>>),
    List(<<Str("zz"), Str("p1")>>), List(<<Str("p1"), Str("zz")>>),
    List(<<Str("zz"), Str("p2"), Str("p1")>>), List(<<Str("zz")>>),
    List(<<Str("zz"), Variable(<<1, "p1">>)>>) }
SeedCalls ==
  { [function_node |-> n, tainted_params |-> s, origin_function |-> 0,
     original_tainted_params |-> NoSeeds, recursion_limit |-> 8, sub_functions_analyzed |-> 0] :
    n \in {Fn(1), At(Start(1))}, s \in SeedForms }

InitSeeds == InitWith({ [f \in Funcs |-> IF f = 1 THEN t ELSE 7] : t \in {2, 7} })

NextSeeds == (\E a \in SeedCalls : CallResolver(a)) \/ Pass \/ ResolverReturn

SpecSeeds == InitSeeds /\ [][NextSeeds]_vars

\* Single top-level calls of is_function_param_tainted on functions whose
\* bodies hold every kind of instruction: definitions, a store, an operation
\* with no case, calls of no function, and a call of the next function that
\* is descended into or not.
PassCalls ==
  { [function_node |-> n, tainted_params |-> s, origin_function |-> 0,
     original_tainted_params |-> NoSeeds, recursion_limit |-> l, sub_functions_analyzed |-> 0] :
    n \in {Fn(1), At(Start(1))}, s \in {List(<< >>), List(<<Str("p1")>>)}, l \in {0 - 1, 8} }

InitPass == InitWith({ [f \in Funcs |-> IF f = 1 THEN t ELSE 7] : t \in {1, 6, 18, 19, 21, 22} })

NextPass == (\E a \in PassCalls : CallResolver(a)) \/ ResolverSteps

SpecPass == InitPass /\ [][NextPass]_vars


\* The resolver on functions of two and of five parameters, seeded with
\* none, some or all of them, with and without a nested invocation that
\* shares the aliasing map.
AliasCalls ==
  { [function_node |-> Fn(1), tainted_params |-> s, origin_function |-> 0,
     original_tainted_params |-> NoSeeds, recursion_limit |-> l, sub_functions_analyzed |-> 0] :
    s \in { List(<< >>), List(<<Str("p1")>>), List(<<Str("p1"), Str("p2")>>),
            List(<<Str("p2"), Str("p1")>>),
            List(<<Str("p1"), Str("p2"), Str("p3"), Str("p4"), Str("p5")>>) },
    l \in {0 - 1, 8} }

InitAlias == InitWith({ [f \in Funcs |-> IF f = 1 THEN t ELSE 2] : t \in {2, 5, 20} })

NextAlias == (\E a \in AliasCalls : CallResolver(a)) \/ ResolverSteps

SpecAlias == InitAlias /\ [][NextAlias]_vars

\* walk_variable on its own: every mapping from some of three variables to
\* sets of them, the ones with cycles included, and every start set.
WalkNames == { SSAVar(1, n) : n \in {"x", "y", "z"} }

WalkVariable(var_mapping, key_names) ==
  /\ pc = "idle"
  /\ api' = "walk_variable"
  /\ args' = [var_mapping |-> var_mapping, key_names |-> key_names]
  /\ \E walked \in {walk_variable(var_mapping, key_names, 1)} :
        IF walked.st = "ok"
        THEN pc' = "returned" /\ exc' = "" /\ result' = [st |-> "ok", id |-> 0, val |-> walked.val]
        ELSE pc' = "raised" /\ exc' = "RecursionError" /\ result' = NoValue
  /\ UNCHANGED << prog, propagation_cache, call_flow, calls_analyzed, propagated_vars,
                  sliced_calls_to_analyze, new_calls, qi, pi, func_param_to_analyze,
                  ts_cache, cs_cache, next_id, slicer_runs, ninv, started, computed, log,
                  entry_runs, frames, tainted_param_map, descents >>

InitWalk == InitWith({[f \in Funcs |-> 7]})

NextWalk == \E var_mapping \in UNION { [keys -> SUBSET WalkNames] : keys \in SUBSET WalkNames },
               key_names \in SUBSET WalkNames :
               WalkVariable(var_mapping, key_names)

SpecWalk == InitWalk /\ [][NextWalk]_vars


\* ================================================================ claims
InCompleteSlice == api = "complete_slice"
Halted == pc \in {"returned", "raised"}

\* The tuple (parameter-identity, argument-position, callee-name,
\* call-address) of item of the call data.
TupleOf(item, data) == <<item.param, item.pos, data.call_name, data.key[2]>>

\* C1: complete_slice terminates on every program, recursive call graphs
\* included: every call ends (it returns, or it raises), and the while loop
\* is left only with the work queue empty.
C1_Terminates ==
  /\ <>Halted
  /\ [](InCompleteSlice /\ pc \in {"output", "returned"} => sliced_calls_to_analyze = << >>)

\* A call that returned after expanding a call site of a recursive cycle: the
\* callee is the function holding the site, or the seed's own function.
C1_Witness ==
  /\ InCompleteSlice /\ pc = "returned"
  /\ \E i \in 1..Len(started) :
       started[i].callee = started[i].site[1] \/ started[i].callee = call_flow[1][1]

\* C2: within one complete_slice call no (parameter, position, callee,
\* call address) tuple is expanded twice: at most one callee slice is
\* started per tuple.
C2_NoTupleExpandedTwice ==
  \A i, j \in 1..Len(started) : started[i].key = started[j].key => i = j

\* A call site is in the work queue again, with a tainted argument whose
\* tuple has already been expanded by a callee slice.
C2_Witness ==
  /\ pc = "params" /\ pi <= Len(sliced_calls_to_analyze[qi].param_map)
  /\ LET data == sliced_calls_to_analyze[qi]
         item == data.param_map[pi]
     IN /\ item.var \in Range(propagated_vars)
        /\ \E i \in 1..Len(started) : started[i].key = TupleOf(item, data)

\* C3: with analyze_imported_functions = false no slice is started inside a
\* callee that is an imported function, and no result entry is created for it.
C3_ImportedCalleeSkipped ==
  InCompleteSlice /\ ~args.analyze_imported_functions =>
    /\ \A i \in 1..Len(started) : started[i].callee \notin imported_functions
    /\ \A k \in 2..Len(call_flow) : call_flow[k][1] \notin imported_functions

\* C4: a callee is expanded for a call site only if the argument's variable
\* is among the propagated values of the slice the call site was found in.
C4_ExpandedOnlyIfPropagated ==
  \A i \in 1..Len(started) :
    /\ started[i].arg \in Range(started[i].cur_pvars)
    /\ started[i].arg \in Range(started[i].from_pvars)

\* A callee was expanded for a call site found in a callee's slice, whose
\* propagated values were the current ones.
C4_Witness ==
  \E i \in 2..Len(started) :
    /\ started[i].cur_pvars = started[i].from_pvars
    /\ started[i].from_pvars # started[1].from_pvars

\* C5: the returned mapping is complete: for every slice in it and every call
\* of that slice to a function of the binary that is not imported, every
\* argument whose variable is among the slice's propagated values, and for
\* whose position the callee has a parameter, has an entry (callee, parameter).
ResultKeys == { result.val[k][1] : k \in 1..Len(result.val) }

CallComplete(a, pvars) ==
  LET ins == Body(a[1])[a[2]]
  IN ins.op = "MLIL_CALL" /\ ins.dk = "const" /\ ins.df \in Funcs \ imported_functions =>
       \A j \in 1..Len(ins.args) :
         <<a[1], ins.args[j]>> \in Range(pvars) /\ j <= Len(Params(ins.df)) =>
           <<ins.df, <<ins.df, Params(ins.df)[j]>>>> \in ResultKeys

C5_ResultComplete ==
  InCompleteSlice /\ pc = "returned" =>
    \A k \in 1..Len(result.val) :
      \A n \in 1..Len(result.val[k][2][1]) :
        CallComplete(result.val[k][2][1][n], result.val[k][2][2])

\* C6: the keys are listed in discovery order: the first key is that of the
\* seed's function, every key occurs once, every key has a cache entry, the
\* value kept for a key is the first slice computed for it, and the mapping
\* returned lists the cache in that order.
C6_DiscoveryOrder ==
  InCompleteSlice /\ pc \in {"while", "for", "params", "output", "returned"} =>
    /\ call_flow # << >>
    /\ call_flow[1][1] = addr_to_func(args.target.loc)
    /\ \A i, j \in 1..Len(call_flow) : call_flow[i] = call_flow[j] => i = j
    /\ Range(call_flow) = DOMAIN propagation_cache
    /\ \A k \in DOMAIN propagation_cache : propagation_cache[k] = computed[k]
    /\ pc = "returned" => result.val = OrderedDict(call_flow, computed)

\* A call returned several entries after a callee slice was taken for the
\* key the seed already holds.
C6_Witness ==
  /\ InCompleteSlice /\ pc = "returned" /\ Len(call_flow) >= 2
  /\ \E i \in 1..Len(started) : <<started[i].callee, started[i].param>> = call_flow[1]

\* C7: tainted_slice and complete_slice are memoized: a later call on the same
\* Analysis instance whose seed, variable kind, direction and output mode
\* have the same values as an earlier call's returns the object the earlier
\* call returned, and runs no slicer.
C7_MemoizedIdentical ==
  \A i, j \in 1..Len(log) :
    i < j /\ log[i].api = log[j].api /\ Effective(log[i].args) = Effective(log[j].args) =>
      log[j].id = log[i].id /\ log[j].ran = 0

\* C8: complete_slice fails with TypeError, and returns nothing, whenever the
\* seed's address resolves to no function.
C8_UnresolvedSeedFails ==
  InCompleteSlice /\ addr_to_func(args.target.loc) = 0 =>
    pc = "raised" /\ exc = "TypeError" /\ result = NoValue /\ call_flow = << >>

C8_Witness == InCompleteSlice /\ args.target.loc = BadAddr /\ pc = "raised"

\* C9: a callee slice that fails (it raises, or yields no result) does not
\* end the complete_slice call: the driver goes on with the work queue.
CalleeSliceFails(s) ==
  tainted_slice(TaintTarget(Start(s.callee), Variable(s.param)), "FunctionParam",
                "Returned", "Forward").st # "ok"

C9_CalleeFailureSkipped ==
  \A i \in 1..Len(started) : CalleeSliceFails(started[i]) => pc # "raised"

\* C10: the output mode does not alter the returned data: tainted_slice
\* called with OutputMode.Printed ends as it does with OutputMode.Returned.
C10_OutputModeIrrelevant ==
  api = "tainted_slice" /\ Halted /\ args.output = "Printed" =>
    LET r == tainted_slice(args.target, args.var_type, "Returned", args.slice_type)
    IN IF r.st = "raise" THEN pc = "raised" /\ exc = r.exc
       ELSE /\ pc = "returned" /\ result.st = r.st
            /\ r.st = "ok" => result.val = <<r.slice, r.fname, r.pvars>>

\* The Forward slice of the parameter name of f from its first reference.
ForwardFromFirstRef(f, name) ==
  LET refs == RefsFrom(f, name, 1)
  IN TraceForward(f, refs[1], refs[1], <<name>>, << >>).slice

\* C11: a FunctionParam seed is sliced Forward from the parameter's first
\* reference whatever direction was asked for: the slice tainted_slice
\* returns for it, and every callee slice complete_slice takes, is that
\* Forward slice.
C11_ParamSlicedForward ==
  /\ api = "tainted_slice" /\ args.var_type = "FunctionParam" /\ pc = "returned" /\ result.st = "ok" =>
       result.val[1] = ForwardFromFirstRef(addr_to_func(args.target.loc), args.target.variable.name)
  /\ \A i \in 1..Len(started) :
       started[i].st = "ok" =>
         started[i].slice = ForwardFromFirstRef(started[i].callee, started[i].param[2])

\* A Backward complete_slice took a callee slice of several instructions.
C11_Witness ==
  /\ InCompleteSlice /\ args.slice_type = "Backward"
  /\ \E i \in 1..Len(started) : started[i].st = "ok" /\ Len(started[i].slice) >= 2

\* The seed's address is that of an instruction of a function.
SeedAtInstruction ==
  /\ addr_to_func(args.target.loc) # 0
  /\ mlil_at(addr_to_func(args.target.loc), args.target.loc) # 0

\* C12: tainted_slice fails with an error when the seed cannot be resolved: a
\* FunctionVar seed whose name is no variable of the function, a GlobalVar
\* seed whose name matches no data symbol or several.
C12_UnresolvedSeedRaises ==
  api = "tainted_slice" /\ Halted /\ SeedAtInstruction =>
    LET name == args.target.variable.name
        f == addr_to_func(args.target.loc)
    IN \/ args.var_type = "FunctionVar" /\ str_to_var_object(name, f) = NoneVar
       \/ args.var_type = "GlobalVar" /\ Len(SelectSeq(DataSymbols, LAMBDA n : n = name)) # 1
       => pc = "raised"

\* The two shapes recognized for a StructMember seed: the destination is a
\* field dereference; the source is a struct load or a field extraction.
Recognized(sh) ==
  \/ sh.hlil = "HLIL_ASSIGN" /\ sh.dest = "HLIL_DEREF_FIELD"
  \/ sh.source \in {"MLIL_LOAD_STRUCT", "MLIL_VAR_FIELD"}

\* C13: for a StructMember seed at an instruction of any other shape
\* tainted_slice raises; it never returns.
C13_UnrecognizedShapeRaises ==
  api = "tainted_slice" /\ Halted /\ args.var_type = "StructMember" /\ SeedAtInstruction =>
    LET f == addr_to_func(args.target.loc)
    IN ~Recognized(ShapeOf(Body(f)[mlil_at(f, args.target.loc)])) => pc = "raised"

\* C14: an invalid direction or output mode is rejected eagerly: tainted_slice
\* raises TypeError and no slicer has run, for every variable kind and
\* whether or not the seed resolves.
C14_InvalidConfigRejectedEagerly ==
  api = "tainted_slice" /\ Halted
    /\ (args.slice_type \notin {"Forward", "Backward"} \/ args.output \notin {"Returned", "Printed"}) =>
      pc = "raised" /\ exc = "TypeError" /\ slicer_runs = 0

\* The slice data holds a call whose destination is no known function.
HasUnresolvedCall(data) ==
  \E k \in 1..Len(data) :
    LET loc == Body(data[k][1])[data[k][2]]
    IN loc.op = "MLIL_CALL" /\ (loc.dk # "const" \/ loc.df \notin Funcs)

\* The calls of the slice data to a known function, in slice order.
ResolvedCalls(data) ==
  SelectSeq(data, LAMBDA a : LET loc == Body(a[1])[a[2]]
                             IN loc.op = "MLIL_CALL" /\ loc.dk = "const" /\ loc.df \in Funcs)

\* C15: get_sliced_calls leaves a call with an unresolved destination (an
\* indirect call included) out without raising: for every slice taken that
\* holds such a call it returns, with an entry for each call to a known
\* function and for nothing else, and complete_slice does not end in its
\* ValueError.
C15_UnresolvedCallSkipped ==
  InCompleteSlice =>
    \A k \in DOMAIN computed :
      HasUnresolvedCall(computed[k][1]) =>
        LET sc == get_sliced_calls(computed[k][1], k[1], computed[k][2])
        IN /\ sc.st = "ok"
           /\ [i \in 1..Len(sc.calls) |-> sc.calls[i].loc] = ResolvedCalls(computed[k][1])
           /\ ~(pc = "raised" /\ exc = "ValueError")

\* C16: get_sliced_calls returns an entry only for a call that receives a
\* tainted argument: no entry of the work queue, or of the calls found in a
\* round, has an empty parameter map.
C16_EntryOnlyForTaintedCall ==
  InCompleteSlice =>
    /\ \A i \in 1..Len(sliced_calls_to_analyze) : sliced_calls_to_analyze[i].param_map # << >>
    /\ \A i \in 1..Len(new_calls) : new_calls[i].param_map # << >>

InResolver == api = "is_function_param_tainted"

\* C17: every call of is_function_param_tainted ends, also on a function
\* that passes its tainted parameter to itself or to a function that calls
\* it back, for every recursion_limit: the invocations nested in it come to
\* an end and the interpreter's stack never overflows (no RecursionError).
C17_ResolverTerminates ==
  (InResolver /\ pc = "resolving") ~> (InResolver /\ Halted /\ exc # "RecursionError")

\* A self-recursive function whose tainted parameter is passed to itself was
\* resolved with a nested invocation on itself, and the call returned.
C17_Witness ==
  /\ InResolver /\ pc = "returned"
  /\ prog[1] = 3
  /\ args.tainted_params = List(<<Str("p1")>>)
  /\ \E k \in 1..Len(descents) :
        descents[k].descended /\ descents[k].callee = 1 /\ descents[k].site[1] = 1

\* C18: at a call instruction with a resolved callee the resolver calls
\* itself on the callee whenever the budget is not exhausted, that is
\* whenever fewer callees than recursion_limit were analysed so far; so with
\* the defaults (limit 8, counter 0) the first call met is descended into.
C18_DescendsWithinBudget ==
  InResolver =>
    \A k \in 1..Len(descents) :
       descents[k].sub_functions_analyzed < descents[k].recursion_limit
         => descents[k].descended

\* C19: the recursion bound is threaded through the descent: every nested
\* invocation runs with its caller's recursion_limit and with a counter
\* greater than its caller's, there are never more nested invocations than
\* the recursion_limit of the top-level call, and a call met once the bound
\* is reached is not descended into.
C19_BoundThreaded ==
  InResolver =>
    /\ \A k \in 2..Len(frames) :
          /\ frames[k].recursion_limit = frames[k - 1].recursion_limit
          /\ frames[k].sub_functions_analyzed > frames[k - 1].sub_functions_analyzed
    /\ Len(frames) > 1 => Len(frames) - 1 <= args.recursion_limit
    /\ \A k \in 1..Len(descents) :
          descents[k].descended
            => descents[k].sub_functions_analyzed < descents[k].recursion_limit

\* Some tracked tainted value's underlying variable has a use site that is a
\* return instruction.
ReturnsTracked(fr) ==
  \E t_var \in fr.tainted_variables :
     \E use_site \in use_sites(t_var.variable) :
        Body(t_var.variable.f)[use_site].op = "MLIL_RET"

\* C20: an invocation of is_function_param_tainted reports is_return_tainted
\* = true exactly when some tracked tainted value's underlying variable has a
\* use site that is a return instruction, in the result the top-level call
\* returns and in the result a nested invocation hands to its caller.
C20_ReturnTaintedIffUsedByReturn ==
  [][ /\ ((AtEnd /\ pc' = "returned")
            => (result'.val.is_return_tainted <=> ReturnsTracked(Top)))
      /\ ((AtEnd /\ Len(frames) > 1)
            => \A o \in Outcomes(Top, tainted_param_map) :
                  o.st = "ok" => (o.res.is_return_tainted <=> ReturnsTracked(Top))) ]_vars

\* The top-level invocation has seeded its tainted values and has not yet
\* handled an instruction.
Seeded == InResolver /\ pc = "resolving" /\ Len(frames) = 1 /\ Top.i = 1

\* C21: the seed may be given by name, by variable or as a list, and the
\* form does not change the analysis: the single name of a parameter p, the
\* single variable p and a one-element list holding either all seed the one
\* tainted value tied to p's SSA form.
C21_SeedFormsAgree ==
  (/\ Seeded
   /\ Len(args.tainted_params.items) = 1
   /\ args.tainted_params.items[1].name \in Range(Params(Top.function_node)))
  => Top.tainted_variables =
       { TaintedVar(SSAVar(Top.function_node, args.tainted_params.items[1].name),
                    Start(Top.function_node)) }

\* The tainted values the convertible members of a list of seeds stand for.
Convertible(f, items) ==
  { TaintedVar(SSAVar(f, q.name), Start(f)) :
      q \in { r \in Range(items) : r.kind = "str" /\ r.name \in Range(Params(f)) } }
  \cup { TaintedVar(q, Start(f)) : q \in { r \in Range(items) : r.kind = "Variable" } }

HasUnconvertible(f, items) ==
  \E q \in Range(items) : q.kind = "str" /\ q.name \notin Range(Params(f))

\* C22: a name in the list of seeds that cannot be converted to an SSA
\* variable is dropped silently: the call does not end with the conversion's
\* ValueError, and the other seeds of the list are seeded and stay tainted
\* through the pass.
C22_BadNameDropped ==
  (/\ InResolver
   /\ args.tainted_params.form = "list"
   /\ HasUnconvertible(FunctionOf(args.function_node), args.tainted_params.items))
  => /\ exc # "ValueError"
     /\ (pc = "resolving" =>
           Convertible(Top.function_node, args.tainted_params.items)
             \subseteq Top.tainted_variables)

\* A list holding an unknown name before a parameter's name was analysed to
\* the end and the parameter is reported.
C22_Witness ==
  /\ InResolver /\ pc = "returned"
  /\ args.tainted_params = List(<<Str("zz"), Str("p1")>>)
  /\ SSAVar(1, "p1") \in result.val.tainted_param_names

\* C23: when two parameters are found tainted together from one seed, the
\* returned aliasing map has an edge from the seed parameter to the other
\* parameter: looking up the seed succeeds and gives the other.
C23_AliasEdgeFromSeed ==
  (/\ InResolver /\ pc = "returned"
   /\ args.tainted_params.form = "list"
   /\ Len(args.tainted_params.items) = 1
   /\ Cardinality(result.val.tainted_param_names) = 2
   /\ SSAVar(1, args.tainted_params.items[1].name) \in result.val.tainted_param_names)
  => LET seed == SSAVar(1, args.tainted_params.items[1].name)
     IN /\ seed \in DOMAIN result.val.tainted_param_map
        /\ result.val.tainted_param_names \ {seed} \subseteq result.val.tainted_param_map[seed]

\* The step finishes the loop body for the instruction the invocation fr
\* was at: the pass of that invocation goes on behind it.
Processed(fr, depth) ==
  /\ Len(frames') = depth
  /\ frames'[depth].function_node = fr.function_node
  /\ frames'[depth].i = fr.i + 1

ReadsTainted(fr) ==
  vars_read(fr.function_node, Body(fr.function_node)[fr.i])
    \cap Underlying(fr.tainted_variables) # {}

\* C24: during the pass, whenever a variable an instruction reads is already
\* tainted, every variable the instruction writes is tainted once the
\* instruction has been processed, whatever its operation is.
C24_ReadsSpreadToWrites ==
  [][ /\ ((AtInstruction /\ Processed(Top, Len(frames)) /\ ReadsTainted(Top))
            => vars_written(Top.function_node, Body(Top.function_node)[Top.i])
                 \subseteq Underlying(frames'[Len(frames)].tainted_variables))
      /\ ((AtEnd /\ Len(frames) > 1 /\ Processed(frames[Len(frames) - 1], Len(frames) - 1)
             /\ ReadsTainted(frames[Len(frames) - 1]))
            => LET caller == frames[Len(frames) - 1]
               IN vars_written(caller.function_node, Body(caller.function_node)[caller.i])
                    \subseteq Underlying(frames'[Len(frames) - 1].tainted_variables)) ]_vars

\* C25: the set of tainted values only grows: no step of the pass, be it a
\* store, a definition, a call, a skipped call of no function or an
\* operation the resolver has no case for, removes a value that was tainted
\* before it; and an operation with no case does not stop the pass.
C25_TaintOnlyGrows ==
  [][ /\ \A k \in 1..Len(frames) :
            (k <= Len(frames') /\ frames'[k].function_node = frames[k].function_node)
              => frames[k].tainted_variables \subseteq frames'[k].tainted_variables
      /\ ((AtInstruction /\ Body(Top.function_node)[Top.i].op = "MLIL_INTRINSIC")
            => pc' = "resolving" /\ Processed(Top, Len(frames))) ]_vars

\* The pass went over a definition, a store, an operation with no case and
\* a field definition, and the seed and the store's value are still tainted.
C25_Witness ==
  /\ InResolver /\ pc = "resolving" /\ Len(frames) = 1
  /\ prog[1] = 19 /\ Top.i = 5
  /\ TaintedVar(SSAVar(1, "p1"), Start(1)) \in Top.tainted_variables
  /\ \E t \in Top.tainted_variables : t.loc_address = Addr(1, 2)

\* The instruction at the StructMember seed is an assignment whose source is
\* a struct load or a field extraction.
SourceIsField(sh) ==
  sh.attrs /\ sh.mlil = "MLIL_SET_VAR" /\ sh.source \in {"MLIL_LOAD_STRUCT", "MLIL_VAR_FIELD"}

\* C26: for a StructMember seed at an assignment whose source is a struct
\* load or a field extraction, tainted_slice runs the slicer on the member
\* taken from the source, whatever the HLIL operation of the instruction is.
C26_SourceFieldIsTraced ==
  /\ api = "tainted_slice" /\ Halted /\ args.var_type = "StructMember" /\ SeedAtInstruction
  /\ args.slice_type \in {"Forward", "Backward"} /\ args.output = "Returned"
  => LET f == addr_to_func(args.target.loc)
     IN SourceIsField(ShapeOf(Body(f)[mlil_at(f, args.target.loc)]))
          => pc = "returned" /\ slicer_runs > entry_runs

OwnTaintedParameters(fr) ==
  { v \in walk_variable(fr.variable_mapping, Underlying(fr.tainted_variables), 1).val :
      v.name \in Range(Params(fr.function_node)) }

\* C28: the tainted-parameter set an invocation on a function returns is the
\* closure cut down to that function's own declared parameters, in the
\* result of the top-level call and in the result a nested invocation, whose
\* origin function is another function, hands to its caller.
C28_ReportsOwnParameters ==
  [][ AtEnd => \A o \in Outcomes(Top, tainted_param_map) :
                  o.st = "ok" => o.res.tainted_param_names = OwnTaintedParameters(Top) ]_vars

\* The arguments of the call instruction the caller fr stands at whose
\* parameter the nested invocation reports tainted.
ReportedArguments(fr, res) ==
  LET f == fr.function_node
      ins == Body(f)[fr.i]
  IN { SSAVar(f, ins.args[k]) : k \in { j \in Zipped(ins, ins.df) :
         \E v \in res.tainted_param_names : v.name = Params(ins.df)[j] } }

\* C29: when a nested invocation returns to its caller, the caller's
\* argument of every parameter it reports tainted is in the caller's tainted
\* set, and so is every variable the call writes if it reports the callee's
\* return value tainted.
C29_NestedResultMappedBack ==
  [][ (AtEnd /\ Len(frames) > 1 /\ pc' = "resolving")
        => \E o \in Outcomes(Top, tainted_param_map) :
             /\ o.st = "ok" /\ tainted_param_map' = o.map
             /\ LET caller == frames[Len(frames) - 1]
                    tainted == Underlying(frames'[Len(frames')].tainted_variables)
                IN /\ ReportedArguments(caller, o.res) \subseteq tainted
                   /\ (o.res.is_return_tainted =>
                         vars_written(caller.function_node,
                                      Body(caller.function_node)[caller.i]) \subseteq tainted) ]_vars

\* C30: one invocation changes the aliasing map in one way: with at most
\* one tainted parameter it leaves the map as it is; with two or more it
\* writes one key, a tainted parameter, whose value holds every other
\* tainted parameter and not the key, and every other key keeps its value.
C30_OneAliasEdge ==
  [][ (AtEnd /\ frames' # frames)
        => \E walked \in {walk_variable(Top.variable_mapping,
                                        Underlying(Top.tainted_variables), 1)} :
             walked.st = "ok" =>
               \E params \in {tainted_parameters(Top, walked.val)} :
                  IF Cardinality(params) <= 1 THEN tainted_param_map' = tainted_param_map
                  ELSE \E key \in params :
                         /\ DOMAIN tainted_param_map' = DOMAIN tainted_param_map \cup {key}
                         /\ tainted_param_map'[key] = params \ {key}
                         /\ \A k \in DOMAIN tainted_param_map \ {key} :
                               tainted_param_map'[k] = tainted_param_map[k] ]_vars

\* The pass is at a store to [(base + constant) + off].
AtOffsetStore ==
  /\ AtInstruction
  /\ Body(Top.function_node)[Top.i].op = "MLIL_STORE"
  /\ Body(Top.function_node)[Top.i].dest = "indexed"

\* C31: a store to base + offset variable records the offset variable as a
\* tainted offset only if it is a tracked tainted value at that point of the
\* pass; an offset variable that was defined earlier and is not tainted is
\* recorded with NotTainted confidence.
C31_OffsetTaintFollowsTrackedSet ==
  [][ AtOffsetStore =>
        LET f == Top.function_node
            off == Body(f)[Top.i].off
            tracked == \E t \in Top.tainted_variables : t.variable.name = off
        IN /\ ((SSAVar(f, off) \in DOMAIN Top.variable_mapping /\ ~tracked)
                 => (/\ pc' = "resolving"
                     /\ \E t \in frames'[Len(frames')].tainted_variables :
                           /\ "offset_var" \in DOMAIN t
                           /\ t.loc_address = Addr(f, Top.i)
                           /\ t.offset_var.variable.name = off
                           /\ t.offset_var.confidence_level = "NotTainted"))
           /\ (pc' = "resolving"
                 => \A t \in frames'[Len(frames')].tainted_variables :
                       ("offset_var" \in DOMAIN t /\ t.loc_address = Addr(f, Top.i)
                          /\ t.offset_var.confidence_level = "Tainted")
                         => tracked) ]_vars

\* C32: the callee slice complete_slice starts for a tainted argument at
\* position k is seeded at the callee's k-th declared parameter; when the
\* callee has no k-th parameter no slice is started for that argument.
C32_CalleeSeedIsKthParameter ==
  InCompleteSlice =>
    \A i \in 1..Len(started) :
       /\ started[i].pos \in 1..Len(Params(started[i].callee))
       /\ started[i].param = <<started[i].callee, Params(started[i].callee)[started[i].pos]>>

\* C33: a variable is marked tainted only as a seed, as written by an
\* instruction that reads a tainted variable, or by taint received from a
\* callee; so when no seed of the list resolves (the list is empty or holds
\* unknown names only) the result has no tainted parameter and
\* is_return_tainted is false, whatever the function body assigns.
C33_NoSeedNoTaint ==
  (/\ InResolver /\ pc = "returned"
   /\ args.tainted_params.form = "list"
   /\ Convertible(FunctionOf(args.function_node), args.tainted_params.items) = {})
  => /\ result.val.tainted_param_names = {}
     /\ ~result.val.is_return_tainted

====
